---- MODULE Spec2Model ----
(***************************************************************************)
(* A model of the "Watch Your Back!" player: the Player class of           *)
(* player.py (the referee-facing state machine: phase, turn counters and   *)
(* the two board shrinks) and the movement policies of moving_strategy.py  *)
(* (random, greedy capture, centralizing, simulation on a board copy).     *)
(*                                                                         *)
(* board_state.py, move.py, action.py and placing_strategy.py are imported *)
(* by both files but are not part of the sources at hand: BoardState,      *)
(* Move, generate_moves, Action and do_random_place are modelled from the  *)
(* written specification (sections 4.1, 4.2 and 7).                        *)
(***************************************************************************)
EXTENDS Integers, Sequences, FiniteSets, TLC

VARIABLES
    heap,           \* the BoardState objects: reference -> board value
    phase,          \* Player.phase, per player colour
    total_actions,  \* Player.total_actions, per player colour
    total_turns,    \* Player.total_turns, per player colour
    shrinkLog,      \* history: the total_turns values at which each Player called shrink_board
    referee,        \* the referee: its phase, its turn counter, the colour to move next
    rng,            \* the state of the random module's generator, shared by both players
    pending,        \* the action returned by action(), on its way to the opponent's update()
    call            \* the last policy call of moving_strategy.py and what it returned

vars == <<heap, phase, total_actions, total_turns, shrinkLog, referee, rng, pending, call>>

(***************************** bounds **************************************)
\* Moving-phase turns the referee plays before the game is stopped.
MaxMovingTurns == 194
\* The seeds the random generator of a refereed game starts from: 1..NumSeeds.
NumSeeds == 16
\* Pieces on a board handed to a policy of moving_strategy.py.
MaxPieces == 3

(************************** program constants ******************************)
TOTAL_PIECES == 12
FirstShrinkTurn == 127
SecondShrinkTurn == 191

Colours == {"white", "black"}
Opponent(p) == IF p = "white" THEN "black" ELSE "white"
\* Player.__init__: the characters of the player's own and of the enemy's pieces.
PieceOf(p) == IF p = "white" THEN "O" ELSE "@"
EnemyOf(p) == IF p = "white" THEN "@" ELSE "O"

None == <<>>

(***************************************************************************)
(* BoardState (board_state.py, modelled from section 4.1).                 *)
(* A board is the cells holding white pieces, the cells holding black      *)
(* pieces and the number of shrink events so far; the active region after  *)
(* s shrinks is the square s..7-s.  The four corner cells of the grid are  *)
(* Corner cells.                                                           *)
(***************************************************************************)
Cells == (0..7) \X (0..7)
Corners == {<<0, 0>>, <<0, 7>>, <<7, 0>>, <<7, 7>>}
EmptyBoard == [white |-> {}, black |-> {}, shrinks |-> 0]

InRange(cell) == cell[1] \in 0..7 /\ cell[2] \in 0..7
Active(b, cell) ==
    /\ cell[1] >= b.shrinks /\ cell[1] <= 7 - b.shrinks
    /\ cell[2] >= b.shrinks /\ cell[2] <= 7 - b.shrinks

\* The cells in the order a scan of the board visits them: column by column.
ScanCells == [i \in 1..64 |-> <<(i - 1) \div 8, (i - 1) % 8>>]

\* Whether a colour argument ('W', 'B', 'O' or '@') names the white side.
IsWhite(colour) == colour \in {"W", "O"}
PiecesOf(b, colour) == IF IsWhite(colour) THEN b.white ELSE b.black
OtherChar(colour) == IF IsWhite(colour) THEN "@" ELSE "O"

\* output_piece(col, row): the occupancy of a cell; "?" stands for the undefined
\* result of reading an inactive or out-of-range cell.
output_piece(b, col, row) ==
    LET cell == <<col, row>> IN
    IF ~InRange(cell) \/ ~Active(b, cell) THEN "?"
    ELSE IF cell \in Corners THEN "X"
    ELSE IF cell \in b.white THEN "O"
    ELSE IF cell \in b.black THEN "@"
    ELSE "-"

\* search_board(colour): the coordinates holding that colour, in scan order.
search_board(b, colour) ==
    SelectSeq(ScanCells, LAMBDA cell : cell \in PiecesOf(b, colour))

\* shrink_board(): deactivates the outermost active ring and eliminates the
\* pieces found there.
shrink_board(b) ==
    LET s == b.shrinks + 1
        keep(cell) == /\ cell[1] >= s /\ cell[1] <= 7 - s
                      /\ cell[2] >= s /\ cell[2] <= 7 - s
    IN [white |-> {cell \in b.white : keep(cell)},
        black |-> {cell \in b.black : keep(cell)},
        shrinks |-> s]

(***************************************************************************)
(* Move (move.py, modelled from sections 3, 4.1 and 4.2).                  *)
(***************************************************************************)
Dirs == <<<<1, 0>>, <<-1, 0>>, <<0, 1>>, <<0, -1>>>>
Plus(cell, d) == <<cell[1] + d[1], cell[2] + d[2]>>

IsFree(b, cell) == InRange(cell) /\ output_piece(b, cell[1], cell[2]) = "-"
IsPiece(b, cell) == InRange(cell) /\ output_piece(b, cell[1], cell[2]) \in {"O", "@"}

\* Move(board, col, row, new_col, new_row) raises InvalidMoveError unless the
\* destination is in range, active and empty.
ValidMove(b, from, to) == IsFree(b, to)

NewMove(from, to) == [from |-> from, to |-> to]

\* The moves of the piece on one cell: per direction a step to the adjacent cell
\* if it is empty and active, else a jump over an adjacent piece to an empty
\* active landing cell.
MovesInDir(b, cell, d) ==
    LET adj == Plus(cell, d)
        land == Plus(adj, d)
    IN IF IsFree(b, adj) THEN <<NewMove(cell, adj)>>
       ELSE IF IsPiece(b, adj) /\ IsFree(b, land) THEN <<NewMove(cell, land)>>
       ELSE <<>>

PieceMoves(b, cell) ==
    MovesInDir(b, cell, Dirs[1]) \o MovesInDir(b, cell, Dirs[2])
        \o MovesInDir(b, cell, Dirs[3]) \o MovesInDir(b, cell, Dirs[4])

RECURSIVE MovesFrom(_, _, _)
MovesFrom(b, pieces, i) ==
    IF i > Len(pieces) THEN <<>>
    ELSE PieceMoves(b, pieces[i]) \o MovesFrom(b, pieces, i + 1)

\* generate_moves(board, colour): every legal move of the colour ('W' or 'B'),
\* in scan order of the pieces.
generate_moves(b, colour) == MovesFrom(b, search_board(b, colour), 1)

Range(s) == {s[i] : i \in 1..Len(s)}

(***************************************************************************)
(* Action (action.py, modelled from sections 3 and 6): a placement or a    *)
(* move together with the side it is played against.  return_action()     *)
(* gives the referee's form of it: (col, row) for a placement, the source  *)
(* and the destination for a move; None is a forfeit.                      *)
(***************************************************************************)
NoCell == <<0, 0>>
NoAction == [kind |-> "none", from |-> NoCell, to |-> NoCell]
PlaceAction(cell) == [kind |-> "place", from |-> NoCell, to |-> cell]
MoveAction(move) == [kind |-> "move", from |-> move.from, to |-> move.to]

return_action(action) ==
    IF action.kind = "place" THEN <<action.to[1], action.to[2]>>
    ELSE <<action.from[1], action.from[2], action.to[1], action.to[2]>>

\* Action(board, enemy, action=tuple): the referee's form read back.
ActionOfTuple(t) ==
    IF Len(t) = 0 THEN NoAction
    ELSE IF Len(t) = 2 THEN PlaceAction(<<t[1], t[2]>>)
    ELSE MoveAction(NewMove(<<t[1], t[2]>>, <<t[3], t[4]>>))

\* The opposing pieces a piece arriving on `to` captures: those orthogonally
\* adjacent to `to` with a piece of the mover's colour, or a corner, directly
\* beyond them.
Captured(b, to, enemy) ==
    {Plus(to, Dirs[i]) : i \in
        {j \in 1..4 :
            LET adj == Plus(to, Dirs[j])
                beyond == Plus(adj, Dirs[j])
            IN /\ output_piece(b, adj[1], adj[2]) = enemy
               /\ output_piece(b, beyond[1], beyond[2]) \in {OtherChar(enemy), "X"}}}

\* modify(action, enemy): applies the placement or the move of the side playing
\* against `enemy`, then resolves the captures; a forfeit changes nothing.
modify(b, action, enemy) ==
    IF action.kind = "none" THEN b
    ELSE
        LET lifted == IF action.kind = "move"
                      THEN [b EXCEPT !.white = @ \ {action.from},
                                     !.black = @ \ {action.from}]
                      ELSE b
            put == IF IsWhite(enemy)
                   THEN [lifted EXCEPT !.black = @ \cup {action.to}]
                   ELSE [lifted EXCEPT !.white = @ \cup {action.to}]
            gone == Captured(put, action.to, enemy)
        IN [put EXCEPT !.white = @ \ gone, !.black = @ \ gone]

(***************************************************************************)
(* The random module: a seeded generator.  Its state is one of             *)
(* RandomValues, a draw reads the state and advances it; randint(a, b)     *)
(* maps the value drawn into a..b.                                         *)
(***************************************************************************)
RandomValues == 1..16
NextRandom(r) == (r * 3) % 17
randint(r, a, b) == a + (r % (b - a + 1))

(***************************************************************************)
(* placing_strategy.py (not at hand): do_random_place returns a placement  *)
(* on a random empty active cell.                                          *)
(***************************************************************************)
FreeCells(b) == SelectSeq(ScanCells, LAMBDA cell : IsFree(b, cell))

do_random_place(b, enemy, r) ==
    LET free == FreeCells(b) IN
    PlaceAction(free[randint(r, 0, Len(free) - 1) + 1])

(***************************************************************************)
(* moving_strategy.py: do_random_move.                                     *)
(***************************************************************************)
\* A plausible slip: the moves of the enemy's colour generated.
OwnColourCodeSwapped(enemy) == IF enemy = "@" THEN "B" ELSE "W"

\* lines 22-27: the colour whose moves are generated, from the enemy character.
OwnColourCode(enemy) == IF enemy = "@" THEN "W" ELSE "B"

\* lines 30-35: the action made of a random element of poss_moves, None when
\* there is none.
RandomMoveOf(poss_moves, r) ==
    IF Len(poss_moves) # 0
    THEN MoveAction(poss_moves[randint(r, 0, Len(poss_moves) - 1) + 1])
    ELSE NoAction

\* do_random_move(board_state, enemy), r being the value the generator yields:
\* None when there is no possible move, else the Action of a random element of
\* poss_moves.
do_random_move(b, enemy, r) ==
    RandomMoveOf(generate_moves(b, OwnColourCode(enemy)), r)

NoMove == NewMove(NoCell, NoCell)

\* A plausible slip: the rings computed, the corners left in the outermost one.
find_tiles_of_rank_with_corners(rank) ==
    SelectSeq(ScanCells, LAMBDA cell :
        \E k \in {cell[1], cell[2], 7 - cell[1], 7 - cell[2]} :
            /\ k = rank
            /\ \A j \in {cell[1], cell[2], 7 - cell[1], 7 - cell[2]} : k <= j)

\* find_tiles_of_rank(rank): the cells of one ring, 0 the outermost, 3 the centre.
find_tiles_of_rank(rank) ==
    CASE rank = 0 ->
           <<<<0, 1>>, <<0, 2>>, <<0, 3>>, <<0, 4>>, <<0, 5>>, <<0, 6>>,
             <<1, 0>>, <<2, 0>>, <<3, 0>>, <<4, 0>>, <<5, 0>>, <<6, 0>>,
             <<1, 7>>, <<2, 7>>, <<3, 7>>, <<4, 7>>, <<5, 7>>, <<6, 7>>,
             <<7, 1>>, <<7, 2>>, <<7, 3>>, <<7, 4>>, <<7, 5>>, <<7, 6>>>>
      [] rank = 1 ->
           <<<<1, 1>>, <<1, 2>>, <<1, 3>>, <<1, 4>>, <<1, 5>>, <<1, 6>>,
             <<2, 1>>, <<3, 1>>, <<4, 1>>, <<5, 1>>,
             <<2, 6>>, <<3, 6>>, <<4, 6>>, <<5, 6>>,
             <<6, 1>>, <<6, 2>>, <<6, 3>>, <<6, 4>>, <<6, 5>>, <<6, 6>>>>
      [] rank = 2 ->
           <<<<2, 2>>, <<2, 3>>, <<2, 4>>, <<2, 5>>,
             <<3, 2>>, <<4, 2>>,
             <<3, 5>>, <<4, 5>>,
             <<5, 2>>, <<5, 3>>, <<5, 4>>, <<5, 5>>>>
      [] rank = 3 ->
           <<<<3, 3>>, <<3, 4>>,
             <<4, 3>>, <<4, 4>>>>

\* A plausible slip: the row adjusted before the column.
move_towards_centre_row_first(b, col, row, enemy) ==
    LET new_col == IF col > 5 THEN col - 1 ELSE IF col < 3 THEN col + 1 ELSE col
        new_row == IF row > 5 THEN row - 1 ELSE IF row < 3 THEN row + 1 ELSE row
    IN IF new_row # row
       THEN IF ValidMove(b, <<col, row>>, <<col, new_row>>)
            THEN <<col, new_row>> ELSE None
       ELSE IF new_col # col
       THEN IF ValidMove(b, <<col, row>>, <<new_col, row>>)
            THEN <<new_col, row>> ELSE None
       ELSE None

\* move_towards_centre(board_state, col, row, enemy): the destination of a step
\* towards the centre, or None.  A column outside 3..5 is adjusted, and nothing
\* else is tried when that step is invalid; else a row outside 3..5 is adjusted.
move_towards_centre(b, col, row, enemy) ==
    LET new_col == IF col > 5 THEN col - 1 ELSE IF col < 3 THEN col + 1 ELSE col
        new_row == IF row > 5 THEN row - 1 ELSE IF row < 3 THEN row + 1 ELSE row
    IN IF new_col # col
       THEN IF ValidMove(b, <<col, row>>, <<new_col, row>>)
            THEN <<new_col, row>> ELSE None
       ELSE IF new_row # row
       THEN IF ValidMove(b, <<col, row>>, <<col, new_row>>)
            THEN <<col, new_row>> ELSE None
       ELSE None

\* line 143: the rings scanned, outside in: range(3).
ScannedTiles == find_tiles_of_rank(0) \o find_tiles_of_rank(1) \o find_tiles_of_rank(2)

\* lines 143-152: the scan from tile i on.  undefinedRead tells that output_piece
\* was asked for an inactive cell before the scan ended.
RECURSIVE ScanTiles(_, _, _, _, _)
ScanTiles(b, enemy, player, tiles, i) ==
    IF i > Len(tiles) THEN [move |-> NoMove, undefinedRead |-> FALSE]
    ELSE
        LET tile == tiles[i]
            piece == output_piece(b, tile[1], tile[2])
        IN IF piece = player /\ move_towards_centre(b, tile[1], tile[2], enemy) # None
           THEN [move |-> NewMove(tile, move_towards_centre(b, tile[1], tile[2], enemy)),
                 undefinedRead |-> FALSE]
           ELSE LET rest == ScanTiles(b, enemy, player, tiles, i + 1)
                IN [rest EXCEPT !.undefinedRead = @ \/ piece = "?"]

\* move_to_centre_algorithm(board_state, enemy, player, possmoves): the Move of
\* the first scanned piece of the player that move_towards_centre finds a
\* destination for; NoMove stands for None.
move_to_centre_algorithm(b, enemy, player, possmoves) ==
    ScanTiles(b, enemy, player, ScannedTiles, 1)

\* A plausible slip: temp_board_state = board_state, the same object.
TempBoardAlias(ref) == ref

\* lines 164 and 212: BoardState(None, board_state) is a new object.
TempBoardRef(ref) == "temp"

\* lines 164-166 and 212-214: the heap after the move was applied to the copy.
Simulated(h, ref, enemy, move) ==
    LET tmp == TempBoardRef(ref)
        copied == [h EXCEPT ![tmp] = h[ref]]
    IN [copied EXCEPT ![tmp] = modify(copied[tmp], MoveAction(move), enemy)]

\* lines 167-168 and 215-216: the colour search_board is asked for.
SearchCode(enemy) == IF enemy = "O" THEN "W" ELSE enemy

\* A plausible slip: the player's pieces counted instead of the enemy's.
check_move_for_elimination_own(h, ref, enemy, player, move) ==
    LET after == Simulated(h, ref, enemy, move)
        tmp == TempBoardRef(ref)
    IN [heap |-> after,
        ret |-> Len(search_board(after[tmp], player))
                    # Len(search_board(after[ref], player))]

\* check_move_for_elimination(board_state, enemy, player, move)
check_move_for_elimination(h, ref, enemy, player, move) ==
    LET after == Simulated(h, ref, enemy, move)
        tmp == TempBoardRef(ref)
    IN [heap |-> after,
        ret |-> Len(search_board(after[tmp], SearchCode(enemy)))
                    # Len(search_board(after[ref], SearchCode(enemy)))]

\* evalutate_this_move(board_state, enemy, player, move)
evalutate_this_move(h, ref, enemy, player, move) ==
    LET after == Simulated(h, ref, enemy, move)
        tmp == TempBoardRef(ref)
    IN [heap |-> after,
        ret |-> Len(search_board(after[tmp], player))
                    - Len(search_board(after[ref], SearchCode(enemy)))]

\* lines 198-202: the scan of poss_moves for the first eliminating move.
RECURSIVE EliminationScan(_, _, _, _, _, _)
EliminationScan(h, ref, enemy, player, moves, i) ==
    IF i > Len(moves) THEN [heap |-> h, list |-> <<>>]
    ELSE LET c == check_move_for_elimination(h, ref, enemy, player, moves[i])
         IN IF c.ret THEN [heap |-> c.heap, list |-> <<moves[i]>>]
            ELSE EliminationScan(c.heap, ref, enemy, player, moves, i + 1)

\* lines 197-204: move_list before the random move is appended: the first
\* eliminating move if there is one, then what the centralizing policy returned
\* (NoMove standing for None).
EasyEliminationList(h, ref, enemy, player, poss_moves) ==
    LET scan == EliminationScan(h, ref, enemy, player, poss_moves, 1)
        centre == move_to_centre_algorithm(scan.heap[ref], enemy, player, poss_moves)
    IN [heap |-> scan.heap,
        list |-> scan.list \o <<centre.move>>,
        undefinedRead |-> centre.undefinedRead]

\* line 206: the random move appended, r being the value the generator yields.
WithRandomMove(first, poss_moves, r) ==
    [first EXCEPT !.list = @ \o <<poss_moves[randint(r, 0, Len(poss_moves) - 1) + 1]>>]

\* check_easy_elimination(board_state, enemy, player): the list of moves built,
\* empty when there is no possible move.
check_easy_elimination(h, ref, enemy, player, r) ==
    LET poss_moves == generate_moves(h[ref], OwnColourCode(enemy)) IN
    IF Len(poss_moves) # 0
    THEN WithRandomMove(EasyEliminationList(h, ref, enemy, player, poss_moves),
                        poss_moves, r)
    ELSE [heap |-> h, list |-> <<>>, undefinedRead |-> FALSE]

(***************************************************************************)
(* player.py: Player, driven by the referee.  The referee asks the colour  *)
(* to move for an action, passing the number of turns played in the        *)
(* current phase, then hands the action to the opponent's update().        *)
(***************************************************************************)
Nobody == "nobody"
\* The record of a policy call: the function, the colour it acts for, its move
\* argument, and what it returned (an action, a list of moves, a boolean or a
\* number); failed tells that it ended in an error, undefinedRead that it asked
\* output_piece for an inactive cell.
NoCall == [fn |-> "none", acting |-> "white", move |-> NoMove, action |-> NoAction,
           list |-> <<>>, flag |-> FALSE, value |-> 0, rank |-> 0, tiles |-> <<>>,
           failed |-> FALSE, undefinedRead |-> FALSE]

\* A plausible slip: the thresholds taken one turn late.
MustShrinkLate(ph, turns) ==
    ph = "moving" /\ (turns = FirstShrinkTurn + 1 \/ turns = SecondShrinkTurn + 1)

\* lines 66-72 and 93-98: the shrink check at the end of action() and update().
MustShrink(ph, turns) ==
    ph = "moving" /\ (turns = FirstShrinkTurn \/ turns = SecondShrinkTurn)

\* A plausible slip: the elif branch for the second threshold left out.
ShrinkCheckFirstOnly(b, ph, turns) ==
    IF ph = "moving" /\ turns = FirstShrinkTurn THEN shrink_board(b) ELSE b

ShrinkCheck(b, ph, turns) == IF MustShrink(ph, turns) THEN shrink_board(b) ELSE b
ShrinkLogged(log, ph, turns) == IF MustShrink(ph, turns) THEN Append(log, turns) ELSE log

\* A plausible slip: the switch one action late.
PhaseAfterActionLate(ph, actions) ==
    IF ph = "placing" /\ actions > TOTAL_PIECES THEN "moving" ELSE ph

\* lines 60-65: the phase after an action.
PhaseAfterAction(ph, actions) ==
    IF ph = "placing" /\ actions = TOTAL_PIECES THEN "moving" ELSE ph

\* A plausible slip: the player's own move applied for the wrong side.
ApplyOwnMoveAsEnemy(b, action, p) == modify(b, action, PieceOf(p))

\* line 51 and line 55: self.board.modify(action, self.enemy), in the placing
\* and in the moving phase.
ApplyOwnPlacement(b, action, p) == modify(b, action, EnemyOf(p))
ApplyOwnMove(b, action, p) == modify(b, action, EnemyOf(p))

\* Player.action(turns)
PlayerAction(p) ==
    /\ referee.toMove = p
    /\ pending.from = Nobody
    /\ referee.phase = "placing" \/ referee.turns < MaxMovingTurns
    /\ LET action == IF phase[p] = "placing"
                      THEN do_random_place(heap[p], EnemyOf(p), rng)
                      ELSE do_random_move(heap[p], EnemyOf(p), rng)
        IN
        LET played == IF phase[p] = "placing"
                      THEN ApplyOwnPlacement(heap[p], action, p)
                      ELSE ApplyOwnMove(heap[p], action, p)
            actions == total_actions[p] + 1
            ph == PhaseAfterAction(phase[p], actions)
            turns == IF phase[p] = "placing" /\ actions = TOTAL_PIECES
                     THEN 0 ELSE referee.turns
        IN /\ heap' = [heap EXCEPT ![p] = ShrinkCheck(played, ph, turns)]
           /\ total_actions' = [total_actions EXCEPT ![p] = actions]
           /\ total_turns' = [total_turns EXCEPT ![p] = turns]
           /\ phase' = [phase EXCEPT ![p] = ph]
           /\ shrinkLog' = [shrinkLog EXCEPT ![p] = ShrinkLogged(@, ph, turns)]
           /\ pending' = [from |-> p, phase |-> phase[p],
                          msg |-> IF action = NoAction THEN None
                                  ELSE return_action(action)]
           /\ rng' = IF action = NoAction THEN rng ELSE NextRandom(rng)
    /\ UNCHANGED <<referee, call>>

\* Player.update(action)
PlayerUpdate(p) ==
    /\ pending.from = Opponent(p)
    /\ LET turns == total_turns[p] + 1
           played == modify(heap[p], ActionOfTuple(pending.msg), PieceOf(p))
       IN /\ total_turns' = [total_turns EXCEPT ![p] = turns]
          /\ heap' = [heap EXCEPT ![p] = ShrinkCheck(played, phase[p], turns)]
          /\ shrinkLog' = [shrinkLog EXCEPT ![p] = ShrinkLogged(@, phase[p], turns)]
    /\ pending' = [from |-> Nobody, phase |-> "placing", msg |-> None]
    \* the referee: one more turn played; after 24 placements the moving phase
    \* starts and its turns are counted from 0.
    /\ referee' = IF referee.phase = "placing" /\ referee.turns + 1 = 2 * TOTAL_PIECES
                  THEN [phase |-> "moving", turns |-> 0, toMove |-> p]
                  ELSE [referee EXCEPT !.turns = @ + 1, !.toMove = p]
    /\ UNCHANGED <<phase, total_actions, rng, call>>

\* Player.__init__ for both colours; white moves first.
Init ==
    /\ heap = [r \in {"white", "black", "temp"} |-> EmptyBoard]
    /\ phase = [p \in Colours |-> "placing"]
    /\ total_actions = [p \in Colours |-> 0]
    /\ total_turns = [p \in Colours |-> 0]
    /\ shrinkLog = [p \in Colours |-> <<>>]
    /\ referee = [phase |-> "placing", turns |-> 0, toMove |-> "white"]
    /\ pending = [from |-> Nobody, phase |-> "placing", msg |-> None]
    /\ rng \in 1..NumSeeds
    /\ call = NoCall

Next == \E p \in Colours : PlayerAction(p) \/ PlayerUpdate(p)

Spec == Init /\ [][Next]_vars

(***************************************************************************)
(* The policies of moving_strategy.py called on a position.  Both players  *)
(* hold the same position, after 0, 1 or 2 shrinks: up to MaxPieces pieces *)
(* in one corner region of the board, or one piece anywhere; a policy is   *)
(* called for either colour on that player's board, with the generator in  *)
(* any state.                                                              *)
(***************************************************************************)
\* The part of the board the positions' pieces stand on.
Window == (5..7) \X (0..3)

StrategyBoards ==
    UNION {
        UNION {
            {[white |-> w, black |-> occupied \ w, shrinks |-> s] : w \in SUBSET occupied}
            : occupied \in {o \in SUBSET {cell \in Window \ Corners :
                                            Active([shrinks |-> s], cell)} :
                               Cardinality(o) <= MaxPieces}}
        : s \in 0..2}

\* The positions with one piece, anywhere on the active board.
LonePieceBoards ==
    UNION {
        UNION {{[white |-> {cell}, black |-> {}, shrinks |-> s],
                [white |-> {}, black |-> {cell}, shrinks |-> s]}
               : cell \in {c \in Cells \ Corners : Active([shrinks |-> s], c)}}
        : s \in 0..2}

TurnsAfterShrinks(s) == IF s = 0 THEN 0 ELSE IF s = 1 THEN FirstShrinkTurn ELSE SecondShrinkTurn
LogAfterShrinks(s) ==
    IF s = 0 THEN <<>> ELSE IF s = 1 THEN <<FirstShrinkTurn>>
    ELSE <<FirstShrinkTurn, SecondShrinkTurn>>

InitStrategy ==
    /\ \E b \in StrategyBoards \cup LonePieceBoards :
        /\ heap = [r \in {"white", "black", "temp"} |->
                      IF r = "temp" THEN EmptyBoard ELSE b]
        /\ total_turns = [p \in Colours |-> TurnsAfterShrinks(b.shrinks)]
        /\ shrinkLog = [p \in Colours |-> LogAfterShrinks(b.shrinks)]
        /\ referee = [phase |-> "moving", turns |-> TurnsAfterShrinks(b.shrinks) + 1,
                      toMove |-> "white"]
    /\ phase = [p \in Colours |-> "moving"]
    /\ total_actions = [p \in Colours |-> TOTAL_PIECES]
    /\ pending = [from |-> Nobody, phase |-> "placing", msg |-> None]
    /\ rng = 1
    /\ call = NoCall

PlayerVars == <<phase, total_actions, total_turns, shrinkLog, referee, pending>>

\* The value the generator yields is an input of the call.
CallDoRandomMove(p) ==
    /\ call.fn = "none"
    /\ \E action \in {do_random_move(heap[p], EnemyOf(p), r) : r \in RandomValues} :
        call' = [NoCall EXCEPT !.fn = "do_random_move", !.acting = p,
                               !.action = action]
    /\ UNCHANGED <<heap, rng, PlayerVars>>

CallCheckMoveForElimination(p) ==
    /\ call.fn = "none"
    /\ \E move \in Range(generate_moves(heap[p], OwnColourCode(EnemyOf(p)))) :
        LET c == check_move_for_elimination(heap, p, EnemyOf(p), PieceOf(p), move) IN
        /\ heap' = c.heap
        /\ call' = [NoCall EXCEPT !.fn = "check_move_for_elimination", !.acting = p,
                                  !.move = move, !.flag = c.ret]
    /\ UNCHANGED <<rng, PlayerVars>>

CallEvaluateThisMove(p) ==
    /\ call.fn = "none"
    /\ \E move \in Range(generate_moves(heap[p], OwnColourCode(EnemyOf(p)))) :
        LET c == evalutate_this_move(heap, p, EnemyOf(p), PieceOf(p), move) IN
        /\ heap' = c.heap
        /\ call' = [NoCall EXCEPT !.fn = "evalutate_this_move", !.acting = p,
                                  !.move = move, !.value = c.ret]
    /\ UNCHANGED <<rng, PlayerVars>>

\* Reading an inactive cell is undefined: the call fails or goes on.
CallMoveToCentre(p) ==
    /\ call.fn = "none"
    /\ LET c == move_to_centre_algorithm(heap[p], EnemyOf(p), PieceOf(p),
                                         generate_moves(heap[p], OwnColourCode(EnemyOf(p))))
       IN \E failed \in (IF c.undefinedRead THEN {TRUE, FALSE} ELSE {FALSE}) :
            call' = [NoCall EXCEPT !.fn = "move_to_centre_algorithm", !.acting = p,
                                   !.list = IF failed THEN <<>> ELSE <<c.move>>,
                                   !.failed = failed,
                                   !.undefinedRead = c.undefinedRead]
    /\ UNCHANGED <<heap, rng, PlayerVars>>

\* check_easy_elimination for every value the generator can yield (the list
\* before the random move does not depend on it).
CallCheckEasyElimination(p) ==
    /\ call.fn = "none"
    /\ \E poss_moves \in {generate_moves(heap[p], OwnColourCode(EnemyOf(p)))} :
       \E first \in {EasyEliminationList(heap, p, EnemyOf(p), PieceOf(p), poss_moves)} :
          IF Len(poss_moves) # 0
          THEN \E list \in {WithRandomMove(first, poss_moves, r).list : r \in RandomValues} :
                \E failed \in (IF first.undefinedRead THEN {TRUE, FALSE} ELSE {FALSE}) :
                    /\ heap' = first.heap
                    /\ call' = [NoCall EXCEPT
                                  !.fn = "check_easy_elimination", !.acting = p,
                                  !.list = IF failed THEN <<>> ELSE list,
                                  !.failed = failed,
                                  !.undefinedRead = first.undefinedRead]
          ELSE /\ heap' = heap
               /\ call' = [NoCall EXCEPT !.fn = "check_easy_elimination", !.acting = p]
    /\ UNCHANGED <<rng, PlayerVars>>

\* The ranks find_tiles_of_rank has a list for.
Ranks == 0..3

CallFindTilesOfRank(rank) ==
    /\ call.fn = "none"
    /\ call' = [NoCall EXCEPT !.fn = "find_tiles_of_rank", !.rank = rank,
                              !.tiles = find_tiles_of_rank(rank)]
    /\ UNCHANGED <<heap, rng, PlayerVars>>

NextStrategy ==
    \/ \E p \in Colours :
        \/ CallDoRandomMove(p)
        \/ CallCheckMoveForElimination(p)
        \/ CallEvaluateThisMove(p)
        \/ CallMoveToCentre(p)
        \/ CallCheckEasyElimination(p)
    \/ \E rank \in Ranks : CallFindTilesOfRank(rank)

SpecStrategy == InitStrategy /\ [][NextStrategy]_vars

(***************************************************************************)
(* Properties of the refereed game (Spec).                                 *)
(***************************************************************************)
Count(b, colour) == Cardinality(PiecesOf(b, colour))
\* The characters of a colour's pieces and of the other colour's.
OwnChar(p) == IF p = "white" THEN "O" ELSE "@"
OppChar(p) == IF p = "white" THEN "@" ELSE "O"
IsForfeit(msg) == Len(msg) = 0
IsPlacement(msg) == Len(msg) = 2
IsMovement(msg) == Len(msg) = 4

\* The number of moving-phase turns applied to p's board so far: the turns the
\* referee has counted, and p's own action on its way to the opponent.
TurnsApplied(p) ==
    IF referee.phase = "placing" THEN 0
    ELSE referee.turns + (IF pending.from = p THEN 1 ELSE 0)

\* C1: each Player calls shrink_board once when its moving-phase turn counter
\* is 127 (turn 127 has been applied to its board) and once when it is 191, in
\* that order, and at no other time: never in the placing phase, never twice
\* for a threshold, never a third time, forfeited turns included.
C1_ShrinksAtThresholds ==
    \A p \in Colours :
        shrinkLog[p] =
            IF TurnsApplied(p) > SecondShrinkTurn THEN <<FirstShrinkTurn, SecondShrinkTurn>>
            ELSE IF TurnsApplied(p) > FirstShrinkTurn THEN <<FirstShrinkTurn>>
            ELSE <<>>

C1_Witness ==
    /\ \A p \in Colours : shrinkLog[p] = <<FirstShrinkTurn, SecondShrinkTurn>>
    /\ \A p \in Colours : heap[p].shrinks = 2
    /\ pending.from # Nobody /\ IsForfeit(pending.msg)

\* C2 (as claimed): a Player is in phase 'moving' only when the opponent has
\* made its 12 placements, and an opponent placement reaches update() only
\* while the Player is in phase 'placing'.
C2_MovingOnlyAfterBothQuotas ==
    \A p \in Colours :
        /\ phase[p] = "moving" => total_actions[Opponent(p)] >= TOTAL_PIECES
        /\ (pending.from = Opponent(p) /\ IsPlacement(pending.msg)) => phase[p] = "placing"

\* C3: the first 12 action() calls of a Player return placements, every later
\* one a movement or a forfeit; the phase is 'moving' from the end of the 12th
\* call on and never 'placing' again.
C3_ActionReflectsPhase ==
    /\ [](\A p \in Colours :
            /\ phase[p] = "placing" <=> total_actions[p] < TOTAL_PIECES
            /\ pending.from = p =>
                 IF total_actions[p] <= TOTAL_PIECES THEN IsPlacement(pending.msg)
                 ELSE IsMovement(pending.msg) \/ IsForfeit(pending.msg))
    /\ [][\A p \in Colours :
            /\ phase[p] = "moving" => phase'[p] = "moving"
            /\ total_actions'[p] >= total_actions[p]]_vars

C3_Witness ==
    \E p \in Colours :
        /\ pending.from = p /\ total_actions[p] = TOTAL_PIECES + 1
        /\ IsMovement(pending.msg)
        /\ phase[p] = "moving" /\ phase[Opponent(p)] = "moving"

\* C10: a movement applied to a Player's board, its own in action() or the
\* opponent's in update(), leaves the piece count of the colour that moved as
\* it was and does not raise the other colour's, a shrink of the same call
\* aside; and no call that plays a movement or a forfeit raises a piece count.
C10_MoveRemovesOnlyOpposingPieces ==
    [][\A p \in Colours :
        LET own == OwnChar(p)
            enemy == OppChar(p)
            ownMove == pending'.from = p /\ pending.from = Nobody /\ ~IsPlacement(pending'.msg)
            oppMove == pending.from = Opponent(p) /\ ~IsPlacement(pending.msg)
            noShrink == shrinkLog'[p] = shrinkLog[p]
        IN /\ (ownMove /\ noShrink) => /\ Count(heap'[p], own) = Count(heap[p], own)
                                       /\ Count(heap'[p], enemy) <= Count(heap[p], enemy)
           /\ (oppMove /\ noShrink) => /\ Count(heap'[p], enemy) = Count(heap[p], enemy)
                                       /\ Count(heap'[p], own) <= Count(heap[p], own)
           /\ (ownMove \/ oppMove) => /\ Count(heap'[p], own) <= Count(heap[p], own)
                                      /\ Count(heap'[p], enemy) <= Count(heap[p], enemy)]_vars

\* A Player's own movement has captured: its board holds fewer enemy pieces than
\* the opponent's board, which the movement has not reached yet.
C10_Witness ==
    \E p \in Colours :
        /\ pending.from = p /\ IsMovement(pending.msg)
        /\ heap[p].shrinks = heap[Opponent(p)].shrinks
        /\ Count(heap[p], OppChar(p)) < Count(heap[Opponent(p)], OppChar(p))
        /\ Count(heap[p], OwnChar(p)) = Count(heap[Opponent(p)], OwnChar(p))

\* The shrinks due once n moving-phase turns have been applied to a board.
ShrinksDue(n) ==
    (IF n > FirstShrinkTurn THEN 1 ELSE 0) + (IF n > SecondShrinkTurn THEN 1 ELSE 0)

\* The shrinks the sender of the action in flight made at the end of the call
\* that generated it.
ShrunkAfterPending ==
    IF /\ pending.from # Nobody
       /\ referee.phase = "moving"
       /\ referee.turns \in {FirstShrinkTurn, SecondShrinkTurn}
    THEN 1 ELSE 0

\* C11: both Players shrink at the same points of the referee's move sequence:
\* a board has shrunk once exactly when the turn of index 127 has been applied
\* to it and twice exactly when the turn of index 191 has, and the shrink comes
\* after the turn's action is applied (no piece is left outside the active
\* region); so the two active regions are equal whenever an action is
\* generated, the receiver ingests an action on the region it was generated
\* on, and the regions are equal again once it is ingested.
C11_PlayersShrinkAtSamePoints ==
    /\ [](\A p \in Colours :
            /\ heap[p].shrinks = ShrinksDue(TurnsApplied(p))
            /\ \A cell \in heap[p].white \cup heap[p].black : Active(heap[p], cell))
    /\ [][/\ (pending.from = Nobody /\ pending'.from # Nobody) =>
               (heap["white"].shrinks = heap["black"].shrinks)
          /\ (pending.from # Nobody /\ pending'.from = Nobody) =>
               (/\ heap[Opponent(pending.from)].shrinks
                      = heap[pending.from].shrinks - ShrunkAfterPending
                /\ heap'["white"].shrinks = heap'["black"].shrinks)]_vars

\* The turn of index 127 is a movement of black on its way to white: black has
\* shrunk its board in action(), white has not ingested the movement yet.
C11_Witness ==
    /\ pending.from = "black" /\ IsMovement(pending.msg)
    /\ referee.phase = "moving" /\ referee.turns = FirstShrinkTurn
    /\ heap["black"].shrinks = 1 /\ heap["white"].shrinks = 0

\* C13 (as claimed): while a Player is in phase 'moving' and a moving-phase
\* turn has been applied to its board, total_turns is the index of the last
\* turn applied (its own action or the opponent's it ingested); update()
\* raises total_turns by exactly one, and total_turns never decreases while
\* the Player is in phase 'moving'.
C13_TurnCounterInSync ==
    /\ [](\A p \in Colours :
            (phase[p] = "moving" /\ TurnsApplied(p) >= 1) =>
                total_turns[p] = TurnsApplied(p) - 1)
    /\ [][\A p \in Colours :
            /\ (pending.from = Opponent(p) /\ pending'.from = Nobody) =>
                   (total_turns'[p] = total_turns[p] + 1)
            /\ (phase[p] = "moving") => (total_turns'[p] >= total_turns[p])]_vars

(***************************************************************************)
(* Properties of the policies (SpecStrategy).  A call leaves the acting    *)
(* player's board object in heap[call.acting]; heap["temp"] is the copy    *)
(* the last simulation worked on.                                          *)
(***************************************************************************)
ColourCodeOf(p) == IF p = "white" THEN "W" ELSE "B"
LegalMoves(p) == generate_moves(heap[p], ColourCodeOf(p))

\* C4: do_random_move returns None exactly when the acting colour has no legal
\* move; otherwise it returns an action whose move is one of generate_moves for
\* the acting colour (a move of one of its own pieces), and every legal move
\* is returned for some value of the generator.
C4_RandomMoveIsLegalOrForfeit ==
    call.fn = "do_random_move" =>
        \A poss \in {LegalMoves(call.acting)} :
        \A generated \in {generate_moves(heap[call.acting],
                                         OwnColourCode(EnemyOf(call.acting)))} :
            /\ call.action = NoAction <=> Len(poss) = 0
            /\ call.action # NoAction =>
                 /\ call.action.kind = "move"
                 /\ NewMove(call.action.from, call.action.to) \in Range(poss)
                 /\ call.action.from \in PiecesOf(heap[call.acting], OwnChar(call.acting))
                 /\ call.action.from \notin PiecesOf(heap[call.acting], OppChar(call.acting))
            /\ {RandomMoveOf(generated, r) : r \in RandomValues}
                 = IF Len(poss) = 0 THEN {NoAction}
                   ELSE {MoveAction(poss[i]) : i \in 1..Len(poss)}

C4_Witness ==
    /\ call.fn = "do_random_move"
    /\ call.action # NoAction
    /\ Len(LegalMoves(call.acting)) > 2
    /\ call.action = MoveAction(LegalMoves(call.acting)[Len(LegalMoves(call.acting))])
    /\ Count(heap[call.acting], OppChar(call.acting)) > 0

\* Whether applying the move lowers the number of the opponent's pieces.
Reduces(b, p, move) ==
    Count(modify(b, MoveAction(move), OppChar(p)), OppChar(p)) < Count(b, OppChar(p))

\* C5 (as claimed): when the acting colour has a legal move, the first element
\* of check_easy_elimination's list is a legal move: the first move in
\* generate_moves order that reduces the opponent's piece count; without one,
\* the move of the centralizing policy; and if that policy returns nothing, a
\* random legal move.  With no legal move the list is empty.
C5_GreedyFirstElementIsLegalMove ==
    (call.fn = "check_easy_elimination" /\ ~call.failed) =>
        LET p == call.acting
            poss == LegalMoves(p)
            eliminating == {i \in 1..Len(poss) : Reduces(heap[p], p, poss[i])}
            centre == move_to_centre_algorithm(heap[p], EnemyOf(p), PieceOf(p), poss).move
        IN IF Len(poss) = 0 THEN call.list = <<>>
           ELSE /\ Len(call.list) > 0
                /\ call.list[1] \in Range(poss)
                /\ IF eliminating # {}
                   THEN call.list[1] = poss[CHOOSE i \in eliminating :
                                               \A j \in eliminating : i <= j]
                   ELSE centre # NoMove => call.list[1] = centre

\* The flank the capture rule asks for, once the piece stands on move.to: an
\* opposing piece next to move.to with a piece of the mover's colour, or a
\* corner, directly beyond it.
FlankCreated(b, p, move) ==
    LET moved == IF p = "white"
                 THEN [b EXCEPT !.white = (@ \ {move.from}) \cup {move.to}]
                 ELSE [b EXCEPT !.black = (@ \ {move.from}) \cup {move.to}]
    IN \E d \in Range(Dirs) :
        LET adj == Plus(move.to, d)
            beyond == Plus(adj, d)
        IN /\ InRange(adj) /\ Active(moved, adj)
           /\ adj \in PiecesOf(moved, OppChar(p))
           /\ InRange(beyond) /\ Active(moved, beyond)
           /\ beyond \in PiecesOf(moved, OwnChar(p)) \cup Corners

\* C6: check_move_for_elimination returns True exactly when the move creates a
\* custodial flank; then the opponent has at least one piece fewer on the
\* simulated board than before, and when it returns False the opponent's piece
\* count is unchanged.
C6_CaptureDetectionSoundComplete ==
    call.fn = "check_move_for_elimination" =>
        LET p == call.acting
            before == Len(search_board(heap[p], OppChar(p)))
            after == Len(search_board(heap["temp"], OppChar(p)))
        IN /\ call.flag <=> FlankCreated(heap[p], p, call.move)
           /\ call.flag => after <= before - 1
           /\ ~call.flag => after = before

C6_Witness ==
    /\ call.fn = "check_move_for_elimination"
    /\ call.flag
    /\ FlankCreated(heap[call.acting], call.acting, call.move)
    /\ Count(heap["temp"], OppChar(call.acting)) < Count(heap[call.acting], OppChar(call.acting))

\* The step towards the centre of the piece on a cell: its column adjusted
\* towards 3..5 if that is a legal move, else its row adjusted towards 3..5 if
\* that is a legal move, else None.
ColumnStep(cell) ==
    IF cell[1] > 5 THEN <<cell[1] - 1, cell[2]>>
    ELSE IF cell[1] < 3 THEN <<cell[1] + 1, cell[2]>> ELSE cell
RowStep(cell) ==
    IF cell[2] > 5 THEN <<cell[1], cell[2] - 1>>
    ELSE IF cell[2] < 3 THEN <<cell[1], cell[2] + 1>> ELSE cell
CentreStep(b, cell) ==
    IF ColumnStep(cell) # cell /\ IsFree(b, ColumnStep(cell)) THEN ColumnStep(cell)
    ELSE IF RowStep(cell) # cell /\ IsFree(b, RowStep(cell)) THEN RowStep(cell)
    ELSE None

\* C7 (as claimed): the centralizing policy returns the move of the first
\* piece of the acting colour, rings scanned outside in, that has a legal step
\* towards the centre, the column adjustment tried first and then the row
\* adjustment; it returns nothing only if no piece has such a step.
C7_CentralizingFirstPieceWithStep ==
    (call.fn = "move_to_centre_algorithm" /\ ~call.failed) =>
        LET p == call.acting
            b == heap[p]
            movable == {i \in 1..Len(ScannedTiles) :
                           /\ Active(b, ScannedTiles[i])
                           /\ ScannedTiles[i] \in PiecesOf(b, OwnChar(p))
                           /\ CentreStep(b, ScannedTiles[i]) # None}
        IN IF movable = {} THEN call.list = <<NoMove>>
           ELSE LET first == CHOOSE i \in movable : \A j \in movable : i <= j
                IN call.list = <<NewMove(ScannedTiles[first],
                                         CentreStep(b, ScannedTiles[first]))>>

\* C8 (as claimed): the centralizing policy never fails and never asks
\* output_piece for an inactive or out-of-range cell, also after one or two
\* shrinks.
C8_CentralizingNeverReadsInactive ==
    call.fn = "move_to_centre_algorithm" => ~call.failed /\ ~call.undefinedRead

Abs(n) == IF n < 0 THEN -n ELSE n
\* Twice the distance of a cell to the centre of the 8x8 board, the point
\* (3.5, 3.5): along the axes (Manhattan) and squared (Euclidean).
AxisDistance(cell) == Abs(2 * cell[1] - 7) + Abs(2 * cell[2] - 7)
SquareDistance(cell) ==
    (2 * cell[1] - 7) * (2 * cell[1] - 7) + (2 * cell[2] - 7) * (2 * cell[2] - 7)

\* C12: a move the centralizing policy returns takes a piece of the acting
\* colour from an active cell exactly one cell along a column or a row (no
\* jump, no diagonal) onto an empty active cell strictly closer to the centre
\* of the board; the column changes when the piece's column is outside 3..5,
\* else the row alone changes.
C12_CentralizingMoveIsStepToCentre ==
    (call.fn = "move_to_centre_algorithm" /\ ~call.failed /\ call.list # <<NoMove>>) =>
        LET b == heap[call.acting]
            from == call.list[1].from
            to == call.list[1].to
        IN /\ Len(call.list) = 1
           /\ from \in Cells /\ to \in Cells
           /\ Active(b, from) /\ Active(b, to)
           /\ from \in (IF call.acting = "white" THEN b.white ELSE b.black)
           /\ to \notin b.white \cup b.black \cup Corners
           /\ Abs(to[1] - from[1]) + Abs(to[2] - from[2]) = 1
           /\ AxisDistance(to) < AxisDistance(from)
           /\ SquareDistance(to) < SquareDistance(from)
           /\ IF from[1] \notin 3..5 THEN to[1] # from[1] /\ to[2] = from[2]
              ELSE to[1] = from[1] /\ to[2] # from[2]

\* After a shrink the policy returns a row step of a piece whose column is
\* inside 3..5, although a column step of another piece was blocked.
C12_Witness ==
    /\ call.fn = "move_to_centre_algorithm" /\ ~call.failed
    /\ call.list # <<NoMove>>
    /\ heap[call.acting].shrinks = 1
    /\ call.list[1].from[1] = 5
    /\ call.list[1].to = <<5, call.list[1].from[2] + 1>>
    /\ \E cell \in heap[call.acting].white \cup heap[call.acting].black :
            cell[1] = 6 /\ <<5, cell[2]>> \in heap[call.acting].white \cup heap[call.acting].black

\* The opposing pieces a move of p captures on board b.
CapturedBy(b, p, move) ==
    Count(b, OppChar(p)) - Count(modify(b, MoveAction(move), OppChar(p)), OppChar(p))

\* C14 (as claimed): evalutate_this_move returns the acting colour's piece
\* count minus the opponent's, both on the board the simulated move results
\* in; so it scores a move that captures k pieces exactly k above every move
\* from the same position that captures none.
C14_EvaluationIsPieceDifferenceAfterMove ==
    call.fn = "evalutate_this_move" =>
        LET p == call.acting
            result == heap["temp"]
        IN /\ call.value = Count(result, OwnChar(p)) - Count(result, OppChar(p))
           /\ \A other \in Range(LegalMoves(p)) :
                 CapturedBy(heap[p], p, other) = 0 =>
                    call.value =
                        evalutate_this_move(heap, p, OppChar(p), OwnChar(p), other).ret
                            + CapturedBy(heap[p], p, call.move)

\* The ring of a cell: its distance to the nearest edge of the 8x8 board.
RingOf(cell) ==
    CHOOSE k \in {cell[1], cell[2], 7 - cell[1], 7 - cell[2]} :
        \A j \in {cell[1], cell[2], 7 - cell[1], 7 - cell[2]} : k <= j

\* C15: the list find_tiles_of_rank returns for rank k has no duplicates and
\* holds exactly the non-corner cells (c, r) with min(c, r, 7-c, 7-r) = k, the
\* 24, 20, 12 and 4 cells of the rings from the edge (rank 0) to the four
\* centre cells (rank 3); the lists of two ranks share no cell and the four
\* lists together hold the 60 non-corner cells of the board.
C15_RanksPartitionBoardIntoRings ==
    call.fn = "find_tiles_of_rank" =>
        LET k == call.rank
            tiles == call.tiles
            cellsOf(j) == {find_tiles_of_rank(j)[i] : i \in 1..Len(find_tiles_of_rank(j))}
        IN /\ Cardinality({tiles[i] : i \in 1..Len(tiles)}) = Len(tiles)
           /\ {tiles[i] : i \in 1..Len(tiles)}
                 = {cell \in Cells \ Corners : RingOf(cell) = k}
           /\ Len(tiles) = 4 * (7 - 2 * k) - (IF k = 0 THEN 4 ELSE 0)
           /\ k = 3 => {tiles[i] : i \in 1..Len(tiles)} = (3..4) \X (3..4)
           /\ \A j \in Ranks \ {k} : cellsOf(j) \cap {tiles[i] : i \in 1..Len(tiles)} = {}
           /\ UNION {cellsOf(j) : j \in Ranks} = Cells \ Corners
           /\ Cardinality(UNION {cellsOf(j) : j \in Ranks}) = 60
           /\ Len(find_tiles_of_rank(0)) + Len(find_tiles_of_rank(1))
                 + Len(find_tiles_of_rank(2)) + Len(find_tiles_of_rank(3)) = 60

\* The list of the ring next to the edge ring was returned: 20 cells, the
\* cell (6, 6) among them.
C15_Witness ==
    /\ call.fn = "find_tiles_of_rank" /\ call.rank = 1
    /\ Len(call.tiles) = 20
    /\ \E i \in 1..Len(call.tiles) : call.tiles[i] = <<6, 6>>

\* C9: check_move_for_elimination and evalutate_this_move leave the caller's
\* board as it was, its pieces and its active region: the move is applied to
\* the copy alone.
C9_SimulationLeavesBoard ==
    [][call'.fn \in {"check_move_for_elimination", "evalutate_this_move"} =>
        /\ heap'["white"] = heap["white"]
        /\ heap'["black"] = heap["black"]]_vars

\* A simulated capture: the copy lost an enemy piece and the mover stands on its
\* destination there, not on the caller's board.
C9_Witness ==
    /\ call.fn \in {"check_move_for_elimination", "evalutate_this_move"}
    /\ call.move.to \in PiecesOf(heap["temp"], OwnChar(call.acting))
    /\ call.move.to \notin PiecesOf(heap[call.acting], OwnChar(call.acting))
    /\ call.move.from \in PiecesOf(heap[call.acting], OwnChar(call.acting))
    /\ Count(heap["temp"], OppChar(call.acting)) < Count(heap[call.acting], OppChar(call.acting))
====
